---- MODULE Spec2Model ----
(***************************************************************************)
(* Model of deadlinks.py, the Pelican plugin that checks the external      *)
(* links of rendered content, caches the per-URL outcome in sqlite and     *)
(* annotates the anchors of dead links.                                    *)
(*                                                                         *)
(* Python values are modelled as follows.                                  *)
(*   - bool/None of an outcome: integers, as Python and sqlite hold them   *)
(*     (True = 1, False = 0) with None as the value -1 outside them;       *)
(*   - dict: a function whose DOMAIN is the set of keys present;           *)
(*   - list: a sequence; str: a string;                                    *)
(*   - markup: the sequence of the elements of the document, a parsed      *)
(*     tree: the same sequence with an identity given to every element.    *)
(***************************************************************************)
EXTENDS Integers, Sequences, FiniteSets, TLC

VARIABLES
    settings,      \* instance.settings, the site's settings
    instance,      \* the content object of the current pass
    db,            \* the sqlite file named by cache_file
    pc,            \* position of content_object_init
    soup_doc,      \* the parsed tree (children in document order)
    anchors,       \* the result of find_all: identities, in document order
    i,             \* position of the for loop in anchors
    fetched,       \* the URLs an HTTP GET was issued for, in any pass
    calls,         \* the cache and HTTP calls of the current pass, in order
    verdicts,      \* what the current pass decided for each anchor visited
    first,         \* per URL, the decision taken when it was first cached
    exception,     \* the exception that ended the current pass, if any
    passes,        \* number of passes started
    peer,          \* another process running the plugin on the same file
    last_put       \* per URL, the last update_cache committed (history)

vars == <<settings, instance, db, pc, soup_doc, anchors, i, fetched, calls,
          verdicts, first, exception, passes, peer, last_put>>

(***************************************************************************)
(* Bounds of the model.                                                    *)
(***************************************************************************)
MaxAnchors == 2
MaxPasses == 2

(***************************************************************************)
(* Python values.                                                          *)
(***************************************************************************)
True == 1
False == 0
None == -1
UNKNOWN == None
requests_codes_ok == 200

\* Python truthiness of a bool, an int or None
truthy(v) == v # None /\ v # 0
\* as bool, were the conversion "v is not None"
bool_is_not_None(v) == IF v # None THEN True ELSE False

\* bool(v)
bool(v) == IF truthy(v) THEN True ELSE False
\* str.startswith
startswith(s, prefix) ==
    Len(s) >= Len(prefix) /\ SubSeq(s, 1, Len(prefix)) = prefix

NoPath == ""

DEFAULT_OPTS ==
    [archive |-> TRUE,
     classes |-> <<>>,
     labels |-> FALSE,
     timeout_duration_ms |-> 1000,
     timeout_is_error |-> FALSE,
     cache_file |-> NoPath]

SPAN_WARNING == [name |-> "span", attrs |-> [class |-> <<"label", "label-warning">>], string |-> ""]
SPAN_DANGER == [name |-> "span", attrs |-> [class |-> <<"label", "label-danger">>], string |-> ""]
ARCHIVE_URL(url) == "http://web.archive.org/web/*/" \o url

(***************************************************************************)
(* Cache store: the sqlite file holds the table url_cache (once created),  *)
(* a set of rows (url, availability, success, code).                       *)
(***************************************************************************)
NoRow == <<>>

\* as initialize_cache, were the statement DROP TABLE IF EXISTS followed by
\* CREATE TABLE
initialize_cache_recreating(d) == [exists |-> TRUE, url_cache |-> {}]

\* CREATE TABLE IF NOT EXISTS url_cache (url TEXT PRIMARY KEY, ...)
initialize_cache(d) ==
    IF d.exists THEN d ELSE [exists |-> TRUE, url_cache |-> {}]

\* SELECT ... WHERE url = ?; fetchone(); the row converted with bool()
get_cached_status(url, d) ==
    LET result == {r \in d.url_cache : r.url = url}
    IN  IF result # {}
        THEN LET r == CHOOSE r \in result : TRUE
             IN  <<bool(r.availability), bool(r.success), r.code>>
        ELSE NoRow

\* as update_cache, were only the outcomes of reachable URLs stored
update_cache_reachable_only(url, availability, success, code, d) ==
    IF truthy(availability)
    THEN [d EXCEPT !.url_cache =
            {r \in @ : r.url # url} \cup
            {[url |-> url, availability |-> availability,
              success |-> success, code |-> code]}]
    ELSE d

\* as update_cache, were the statement a plain INSERT on a table without
\* the primary key
update_cache_insert(url, availability, success, code, d) ==
    [d EXCEPT !.url_cache =
        @ \cup {[url |-> url, availability |-> availability,
                 success |-> success, code |-> code]}]

\* REPLACE INTO url_cache: rows in conflict on the primary key are deleted,
\* then the new row is inserted
update_cache(url, availability, success, code, d) ==
    [d EXCEPT !.url_cache =
        {r \in @ : r.url # url} \cup
        {[url |-> url, availability |-> availability,
          success |-> success, code |-> code]}]

(***************************************************************************)
(* Outcome classifier.                                                     *)
(***************************************************************************)
\* as is_hit, were the row looked up and then left aside
is_hit_never(cached) == FALSE

\* as is_hit, were the test "if cached and cached[0]"
is_hit_reachable_only(cached) ==
    IF Len(cached) > 0 THEN truthy(cached[1]) ELSE FALSE

\* if cached: a tuple of three values is truthy, None is not
is_hit(cached) == Len(cached) > 0

\* opts['timeout_duration_ms'] / MS_IN_SECOND raises KeyError on a table
\* without the key
has_timeout_duration(opts) == "timeout_duration_ms" \in DOMAIN opts

\* as classify, were success "response.ok" (any status below 400)
classify_response_ok(r) ==
    IF r.kind = "response"
    THEN <<True, IF r.status_code < 400 THEN True ELSE False, r.status_code>>
    ELSE IF r.kind = "Timeout"
    THEN <<False, UNKNOWN, None>>
    ELSE <<UNKNOWN, False, None>>

\* as caught, without the clause "except RequestException" of line 85
caught_timeout_only(r) == r.kind # "RequestException"

\* lines 77-87: the exceptions of requests.get the try statement catches;
\* Timeout is a RequestException, and both have a clause
caught(r) == r.kind \in {"response", "Timeout", "RequestException"}

\* lines 75-87: the outcome of requests.get
classify(r) ==
    IF r.kind = "response"
    THEN <<True, IF r.status_code = requests_codes_ok THEN True ELSE False,
           r.status_code>>
    ELSE IF r.kind = "Timeout"
    THEN <<False, UNKNOWN, None>>
    ELSE <<UNKNOWN, False, None>>

\* as user_enabled, were an absent option taken as enabled
user_enabled_by_default(inst_settings, opt) ==
    IF opt \in DOMAIN inst_settings THEN inst_settings[opt] ELSE TRUE

user_enabled(inst_settings, opt) ==
    opt \in DOMAIN inst_settings /\ inst_settings[opt]

get_opt(opts, name) ==
    IF name \in DOMAIN opts THEN opts[name] ELSE DEFAULT_OPTS[name]

(***************************************************************************)
(* Annotator. An element of the tree is [id, name, attrs, string]; == on   *)
(* elements compares name, attributes and children, not identity.          *)
(***************************************************************************)
value(e) == [name |-> e.name, attrs |-> e.attrs, string |-> e.string]

\* position of the element with identity id
pos(soup, id) == CHOOSE p \in 1..Len(soup) : soup[p].id = id

\* list.index(x): the first position holding x or an element equal to it
index(contents, e) ==
    CHOOSE p \in 1..Len(contents) :
        /\ value(contents[p]) = value(e)
        /\ \A q \in 1..(p - 1) : value(contents[q]) # value(e)

\* list.insert at Python position idx (0-based), 1-based position idx + 1
insert(contents, idx, e) ==
    SubSeq(contents, 1, idx) \o <<e>> \o SubSeq(contents, idx + 1, Len(contents))

set_attr(node, k, v) ==
    [node EXCEPT !.attrs =
        [a \in DOMAIN node.attrs \cup {k} |-> IF a = k THEN v ELSE node.attrs[a]]]

\* as add_class, were line 121 "node['class'] = [name, ]"
add_class_replacing(node, name) == set_attr(node, "class", <<name>>)

add_class(node, name) ==
    set_attr(node, "class",
             (IF "class" \in DOMAIN node.attrs THEN node.attrs["class"] ELSE <<>>)
             \o <<name>>)

RECURSIVE add_classes(_, _)
\* for cls in classes: add_class(anchor, cls)
add_classes(node, classes) ==
    IF classes = <<>> THEN node
    ELSE add_classes(add_class(node, Head(classes)), Tail(classes))

change_to_archive(anchor) ==
    set_attr(anchor, "href", ARCHIVE_URL(anchor.attrs["href"]))

str(code) ==
    CASE code = 200 -> "200"
      [] code = 204 -> "204"
      [] code = 404 -> "404"

\* soup.span.append(text) on a fresh parse of the span template
label(template, text, id) ==
    [id |-> id, name |-> template.name, attrs |-> template.attrs,
     string |-> template.string \o text]

\* lines 138-149 and 159-170, which differ in the label alone
annotate(soup, id, opts, template, text) ==
    LET p == pos(soup, id)
        s1 == [soup EXCEPT ![p] = add_classes(@, get_opt(opts, "classes"))]
        s2 == IF get_opt(opts, "labels")
              THEN insert(s1, (index(s1, s1[p]) - 1) + 1,
                          label(template, text, Len(s1) + 1))
              ELSE s1
        p2 == pos(s2, id)
    IN  IF get_opt(opts, "archive")
        THEN [s2 EXCEPT ![p2] = change_to_archive(@)]
        ELSE s2

on_connection_error(soup, id, opts) ==
    annotate(soup, id, opts, SPAN_DANGER, "not available")

on_access_error(soup, id, code, opts) ==
    annotate(soup, id, opts, SPAN_WARNING, str(code))

\* as handler, were the test of line 202 "if timeout_is_error:"
handler_flag_only(avail, success, code, opts) ==
    IF ~truthy(avail)
    THEN IF get_opt(opts, "timeout_is_error")
         THEN "on_connection_error"
         ELSE "none"
    ELSE IF ~truthy(success) /\ truthy(code)
         THEN "on_access_error"
         ELSE "none"

\* lines 200-207: which handler the outcome calls for
handler(avail, success, code, opts) ==
    IF ~truthy(avail)
    THEN IF get_opt(opts, "timeout_is_error") \/ success = UNKNOWN
         THEN "on_connection_error"
         ELSE "none"
    ELSE IF ~truthy(success) /\ truthy(code)
         THEN "on_access_error"
         ELSE "none"

dispatch(soup, id, outcome, opts) ==
    LET h == handler(outcome[1], outcome[2], outcome[3], opts)
    IN  IF h = "on_connection_error" THEN on_connection_error(soup, id, opts)
        ELSE IF h = "on_access_error" THEN on_access_error(soup, id, outcome[3], opts)
        ELSE soup

(***************************************************************************)
(* Parsing and serialization (BeautifulSoup): parsing gives every element  *)
(* an identity, serialization keeps the markup of the elements alone.      *)
(***************************************************************************)
BeautifulSoup(markup) ==
    [k \in 1..Len(markup) |->
        [id |-> k, name |-> markup[k].name, attrs |-> markup[k].attrs,
         string |-> markup[k].string]]

serialize(soup) == [k \in 1..Len(soup) |-> value(soup[k])]

RECURSIVE find_all(_, _)
\* the identities of the elements named in names, in document order
find_all(soup, names) ==
    IF soup = <<>> THEN <<>>
    ELSE (IF Head(soup).name \in names THEN <<Head(soup).id>> ELSE <<>>)
         \o find_all(Tail(soup), names)

(***************************************************************************)
(* Inputs: the documents, the settings and the results of an HTTP GET.     *)
(***************************************************************************)
Elements ==
    {[name |-> "a", attrs |-> [href |-> "http://x/a"], string |-> "x"],
     [name |-> "object", attrs |-> [href |-> "http://s/p", class |-> <<"ext">>],
      string |-> ""],
     [name |-> "a", attrs |-> [href |-> "/rel"], string |-> "r"],
     [name |-> "a", attrs |-> [name |-> "top"], string |-> ""]}

Markups == UNION {[1..n -> Elements] : n \in 0..MaxAnchors}

Instances ==
    {[content_is_None |-> TRUE, content |-> <<>>]} \cup
    {[content_is_None |-> FALSE, content |-> m] : m \in Markups}

\* the hrefs of the documents
Urls == {e.attrs["href"] : e \in {x \in Elements : "href" \in DOMAIN x.attrs}}

StatusCodes == {200, 204, 404}

HttpResults ==
    {[kind |-> "response", status_code |-> c] : c \in StatusCodes} \cup
    {[kind |-> "Timeout", status_code |-> None],
     [kind |-> "RequestException", status_code |-> None]}

restrict(f, keys) == [k \in keys |-> f[k]]

OptKeys ==
    {"archive", "classes", "labels", "timeout_duration_ms", "timeout_is_error",
     "cache_file"}

\* a host table with every key present and no value the default but the
\* timeout, which has no effect on the outcome of a request
CustomOpts ==
    [archive |-> FALSE, classes |-> <<"dead", "ext">>, labels |-> TRUE,
     timeout_duration_ms |-> 1000, timeout_is_error |-> TRUE,
     cache_file |-> "cache.db"]

\* the host tables: any subset of the keys omitted, and the defaults spelt out
HostOpts ==
    {restrict(CustomOpts, present) : present \in SUBSET OptKeys} \cup {DEFAULT_OPTS}

SettingKeys == {"DEADLINK_VALIDATION", "SITEURL", "DEADLINK_OPTS"}

Settings ==
    {restrict([DEADLINK_VALIDATION |-> v, SITEURL |-> s, DEADLINK_OPTS |-> o],
              SettingKeys \ omitted) :
        v \in BOOLEAN, s \in {"", "http://s"}, o \in HostOpts,
        omitted \in SUBSET SettingKeys}

(***************************************************************************)
(* The locals of content_object_init, lines 182-185.                       *)
(***************************************************************************)
siteurl == IF "SITEURL" \in DOMAIN settings THEN settings["SITEURL"] ELSE ""

opts ==
    IF "DEADLINK_OPTS" \in DOMAIN settings
    THEN settings["DEADLINK_OPTS"] ELSE DEFAULT_OPTS

\* opts.get('cache_file')
cache_file == IF "cache_file" \in DOMAIN opts THEN opts["cache_file"] ELSE NoPath

\* if cache_file:
caching == cache_file # ""

anchor == soup_doc[pos(soup_doc, anchors[i])]

url == anchor.attrs["href"]

\* as skipped, without the test of the site's own URL
skipped_scheme_only(a) ==
    IF "href" \notin DOMAIN a.attrs THEN TRUE
    ELSE ~startswith(a.attrs["href"], "http")

\* as skipped, without the test of the scheme
skipped_internal_only(a) ==
    IF "href" \notin DOMAIN a.attrs THEN TRUE
    ELSE siteurl # "" /\ startswith(a.attrs["href"], siteurl)

\* as skipped, were the test of line 195 "url.startswith(siteurl)" alone
skipped_empty_prefix(a) ==
    IF "href" \notin DOMAIN a.attrs THEN TRUE
    ELSE \/ ~startswith(a.attrs["href"], "http")
         \/ startswith(a.attrs["href"], siteurl)

\* lines 192-196: the anchors the loop passes over
skipped(a) ==
    IF "href" \notin DOMAIN a.attrs THEN TRUE
    ELSE \/ ~startswith(a.attrs["href"], "http")
         \/ (siteurl # "" /\ startswith(a.attrs["href"], siteurl))

\* what the loop decides for an anchor: the handler called and its code
decision(outcome) ==
    LET h == handler(outcome[1], outcome[2], outcome[3], opts)
    IN  <<h, IF h = "on_access_error" THEN outcome[3] ELSE None>>

Unseen == <<"unseen", None>>

FromCache == [kind |-> "cache", status_code |-> None]

\* the record of one anchor visited: the HTTP result (or FromCache), the
\* outcome get_status_code returned and the decision taken on it
verdict(id, href, result, outcome) ==
    [id |-> id, url |-> href, result |-> result, outcome |-> outcome,
     decision |-> decision(outcome)]

\* the other process is not in get_status_code
PeerIdle == [pc |-> "idle", url |-> "", outcome |-> <<>>]

NoPut == [by |-> "", outcome |-> <<>>, over |-> ""]

\* the record of a committed update_cache: who wrote, the values written,
\* and whose row it replaced
put(by, outcome, before) == [by |-> by, outcome |-> outcome, over |-> before.by]

(***************************************************************************)
(* Initial state: no pass has run, the cache file does not exist.          *)
(***************************************************************************)
Init ==
    /\ settings \in Settings
    /\ instance = [content_is_None |-> TRUE, content |-> <<>>]
    /\ db = [exists |-> FALSE, url_cache |-> {}]
    /\ pc = "idle"
    /\ soup_doc = <<>>
    /\ anchors = <<>>
    /\ i = 0
    /\ fetched = {}
    /\ calls = <<>>
    /\ verdicts = <<>>
    /\ first = [u \in Urls |-> Unseen]
    /\ exception = ""
    /\ passes = 0
    /\ peer = PeerIdle
    /\ last_put = [u \in Urls |-> NoPut]

(***************************************************************************)
(* content_object_init, lines 176-190: the guard, the configuration, the   *)
(* cache initialization and the parse.                                     *)
(***************************************************************************)
StartPass(inst) ==
    /\ pc = "idle"
    /\ passes < MaxPasses
    /\ passes' = passes + 1
    /\ instance' = inst
    /\ IF inst.content_is_None \/ ~user_enabled(settings, "DEADLINK_VALIDATION")
       THEN /\ pc' = "returned"
            /\ soup_doc' = <<>>
            /\ anchors' = <<>>
            /\ i' = 0
            /\ db' = db
       ELSE /\ db' = IF caching THEN initialize_cache(db) ELSE db
            /\ soup_doc' = BeautifulSoup(inst.content)
            /\ anchors' = find_all(soup_doc', {"a", "object"})
            /\ i' = 1
            /\ pc' = "loop"
    /\ UNCHANGED <<peer, last_put, settings, fetched, calls, verdicts, first, exception>>

\* lines 192-196: continue
SkipAnchor ==
    /\ pc = "loop"
    /\ i <= Len(anchors)
    /\ skipped(anchor)
    /\ i' = i + 1
    /\ UNCHANGED <<peer, last_put, settings, instance, db, pc, soup_doc, anchors, fetched,
                   calls, verdicts, first, exception, passes>>

\* lines 70-73 and 200-207: the URL is in the cache
CachedAnchor ==
    /\ pc = "loop"
    /\ i <= Len(anchors)
    /\ ~skipped(anchor)
    /\ caching
    /\ LET cached == get_cached_status(url, db)
       IN  /\ is_hit(cached)
           /\ soup_doc' = dispatch(soup_doc, anchors[i], cached, opts)
           /\ verdicts' = Append(verdicts, verdict(anchors[i], url, FromCache, cached))
    /\ calls' = Append(calls, <<"get_cached_status", url>>)
    /\ i' = i + 1
    /\ UNCHANGED <<peer, last_put, settings, instance, db, pc, anchors, fetched, first,
                   exception, passes>>

\* lines 70-78: the URL is not in the cache, or there is no cache
SendRequest ==
    /\ pc = "loop"
    /\ i <= Len(anchors)
    /\ ~skipped(anchor)
    /\ caching => ~is_hit(get_cached_status(url, db))
    /\ LET looked == IF caching THEN Append(calls, <<"get_cached_status", url>>)
                     ELSE calls
       IN  IF has_timeout_duration(opts)
           THEN /\ pc' = "request"
                /\ calls' = Append(looked, <<"requests.get", url>>)
                /\ fetched' = fetched \cup {url}
                /\ exception' = exception
           ELSE /\ pc' = "raised"
                /\ exception' = "KeyError"
                /\ calls' = looked
                /\ fetched' = fetched
    /\ UNCHANGED <<peer, last_put, settings, instance, db, soup_doc, anchors, i, verdicts,
                   first, passes>>

\* lines 79-92 and 200-207: the request ends with result r; sqlite lets
\* update_cache write once no other connection holds the write lock
Response(r) ==
    /\ pc = "request"
    /\ peer.pc # "commit"
    /\ IF caught(r)
       THEN LET outcome == classify(r)
                v == verdict(anchors[i], url, r, outcome)
            IN  /\ db' = IF caching
                         THEN update_cache(url, outcome[1], outcome[2], outcome[3], db)
                         ELSE db
                /\ calls' = IF caching THEN Append(calls, <<"update_cache", url>>)
                            ELSE calls
                /\ soup_doc' = dispatch(soup_doc, anchors[i], outcome, opts)
                /\ verdicts' = Append(verdicts, v)
                /\ first' = IF caching /\ first[url] = Unseen
                            THEN [first EXCEPT ![url] = v.decision]
                            ELSE first
                /\ last_put' = IF caching
                               THEN [last_put EXCEPT
                                        ![url] = put("pass", outcome, @)]
                               ELSE last_put
                /\ i' = i + 1
                /\ pc' = "loop"
                /\ exception' = exception
       ELSE /\ pc' = "raised"
            /\ exception' = r.kind
            /\ UNCHANGED <<last_put, db, calls, soup_doc, verdicts, first, i>>
    /\ UNCHANGED <<peer, settings, instance, anchors, fetched, passes>>

\* line 209; the locals end with the call
Finish ==
    /\ pc = "loop"
    /\ i > Len(anchors)
    /\ instance' = [instance EXCEPT !.content = serialize(soup_doc)]
    /\ pc' = "done"
    /\ UNCHANGED <<peer, last_put, settings, db, soup_doc, anchors, i, fetched, calls,
                   verdicts, first, exception, passes>>

\* lines 211-215: the host is done with the content object, whether the
\* callback returned or raised, and goes on to the next one
NextContent ==
    /\ pc \in {"returned", "done", "raised"}
    /\ pc' = "idle"
    /\ instance' = [content_is_None |-> TRUE, content |-> <<>>]
    /\ soup_doc' = <<>>
    /\ anchors' = <<>>
    /\ i' = 0
    /\ calls' = <<>>
    /\ verdicts' = <<>>
    /\ exception' = ""
    /\ UNCHANGED <<peer, last_put, settings, db, fetched, first, passes>>

Next ==
    \/ \E inst \in Instances : StartPass(inst)
    \/ SkipAnchor
    \/ CachedAnchor
    \/ SendRequest
    \/ \E r \in HttpResults : Response(r)
    \/ Finish
    \/ NextContent

Spec == Init /\ [][Next]_vars

(***************************************************************************)
(* Cache store failures: a call of sqlite3 (connect, execute, commit) may  *)
(* raise sqlite3.Error, on an unwritable or corrupt file for one. No try   *)
(* statement of the module has a clause for it.                            *)
(***************************************************************************)
\* as after_store_error, were the error logged and the loop carried on
after_store_error_swallowed(call) == "loop"

\* where content_object_init is after sqlite3.Error in initialize_cache,
\* get_cached_status or update_cache: the exception leaves the function
after_store_error(call) == "raised"

\* line 188: initialize_cache raises
InitializeError(inst) ==
    /\ pc = "idle"
    /\ passes < MaxPasses
    /\ ~(inst.content_is_None \/ ~user_enabled(settings, "DEADLINK_VALIDATION"))
    /\ caching
    /\ passes' = passes + 1
    /\ instance' = inst
    /\ pc' = after_store_error("initialize_cache")
    /\ exception' = "sqlite3.Error"
    /\ UNCHANGED <<peer, last_put, settings, db, soup_doc, anchors, i, fetched, calls,
                   verdicts, first>>

\* line 71: get_cached_status raises
LookupError ==
    /\ pc = "loop"
    /\ i <= Len(anchors)
    /\ ~skipped(anchor)
    /\ caching
    /\ calls' = Append(calls, <<"get_cached_status", url>>)
    /\ pc' = after_store_error("get_cached_status")
    /\ exception' = "sqlite3.Error"
    /\ UNCHANGED <<peer, last_put, settings, instance, db, soup_doc, anchors, i, fetched,
                   verdicts, first, passes>>

\* line 90: the request has ended with result r and update_cache raises,
\* before get_status_code returns the outcome
UpdateError(r) ==
    /\ pc = "request"
    /\ caught(r)
    /\ caching
    /\ calls' = Append(calls, <<"update_cache", url>>)
    /\ pc' = after_store_error("update_cache")
    /\ exception' = "sqlite3.Error"
    /\ UNCHANGED <<peer, last_put, settings, instance, db, soup_doc, anchors, i, fetched,
                   verdicts, first, passes>>

NextFail ==
    \/ Next
    \/ \E inst \in Instances : InitializeError(inst)
    \/ LookupError
    \/ \E r \in HttpResults : UpdateError(r)

SpecFail == Init /\ [][NextFail]_vars

(***************************************************************************)
(* Two processes on one cache file: a second run of the plugin goes        *)
(* through get_status_code for URLs of its own documents while the pass    *)
(* above runs. Of that run the cache calls alone reach this one. sqlite    *)
(* gives one connection at a time the write lock, from the execution of    *)
(* REPLACE to the commit, and shows the other connections the rows as      *)
(* they were committed.                                                    *)
(***************************************************************************)
\* lines 187-188 in the other process
PeerInitialize ==
    /\ peer.pc = "idle"
    /\ caching
    /\ user_enabled(settings, "DEADLINK_VALIDATION")
    /\ db' = initialize_cache(db)
    /\ peer' = [peer EXCEPT !.pc = "loop"]
    /\ UNCHANGED <<settings, instance, pc, soup_doc, anchors, i, fetched,
                   calls, verdicts, first, exception, passes, last_put>>

\* lines 70-78 in the other process: u is not in the cache
PeerSendRequest(u) ==
    /\ peer.pc = "loop"
    /\ ~skipped([name |-> "a", attrs |-> [href |-> u], string |-> ""])
    /\ ~is_hit(get_cached_status(u, db))
    /\ has_timeout_duration(opts)
    /\ peer' = [pc |-> "request", url |-> u, outcome |-> <<>>]
    /\ UNCHANGED <<settings, instance, db, pc, soup_doc, anchors, i, fetched,
                   calls, verdicts, first, exception, passes, last_put>>

\* lines 79-87 and 54-59 in the other process: its request ends with result
\* r and its connection executes REPLACE, which takes the write lock
PeerExecute(r) ==
    /\ peer.pc = "request"
    /\ caught(r)
    /\ peer' = [peer EXCEPT !.pc = "commit", !.outcome = classify(r)]
    /\ UNCHANGED <<settings, instance, db, pc, soup_doc, anchors, i, fetched,
                   calls, verdicts, first, exception, passes, last_put>>

\* line 60 in the other process: conn.commit()
PeerCommit ==
    /\ peer.pc = "commit"
    /\ db' = update_cache(peer.url, peer.outcome[1], peer.outcome[2],
                          peer.outcome[3], db)
    /\ last_put' = [last_put EXCEPT ![peer.url] = put("peer", peer.outcome, @)]
    /\ peer' = [pc |-> "loop", url |-> "", outcome |-> <<>>]
    /\ UNCHANGED <<settings, instance, pc, soup_doc, anchors, i, fetched,
                   calls, verdicts, first, exception, passes>>

\* a site that validates with a cache file and a timeout; what no cache
\* call reads (the options of the annotation, SITEURL) is left out of the
\* settings
InitConc ==
    /\ Init
    /\ caching
    /\ user_enabled(settings, "DEADLINK_VALIDATION")
    /\ DOMAIN opts = {"cache_file", "timeout_duration_ms"}
    /\ "SITEURL" \notin DOMAIN settings

NextConc ==
    \/ Next
    \/ PeerInitialize
    \/ \E u \in Urls : PeerSendRequest(u)
    \/ \E r \in HttpResults : PeerExecute(r)
    \/ PeerCommit

SpecConc == InitConc /\ [][NextConc]_vars

(***************************************************************************)
(* Properties.                                                             *)
(***************************************************************************)
Last(seq) == seq[Len(seq)]

InPass == pc \in {"loop", "request"}

\* the step is the end of a request
IsResponse == pc = "request" /\ pc' = "loop"

\* the step issues an HTTP GET
IsRequest == pc = "loop" /\ pc' = "request"

\* the elements of the document as it was handed to the pass
Original == instance.content

HasRow(u) == \E r \in db.url_cache : r.url = u

with_opt(o, k, v) == [a \in DOMAIN o \cup {k} |-> IF a = k THEN v ELSE o[a]]

\* C1: after put(url, outcome), get(url) returns exactly that outcome, and a
\* cache hit of get_status_code returns the outcome that was put, unknown
\* values included.
C1_RoundTrip ==
    /\ \A r \in db.url_cache :
           get_cached_status(r.url, db) = <<r.availability, r.success, r.code>>
    /\ \A k \in 1..Len(verdicts) :
           verdicts[k].result.kind = "cache" =>
               \E r \in db.url_cache :
                   /\ r.url = verdicts[k].url
                   /\ verdicts[k].outcome = <<r.availability, r.success, r.code>>

\* C2: with caching, a lookup served from the cache leads to the decision
\* (handler and code) the first lookup of that URL led to.
C2_SameDecision ==
    \A k \in 1..Len(verdicts) :
        verdicts[k].result.kind = "cache" =>
            verdicts[k].decision = first[verdicts[k].url]

\* C3: with caching, an HTTP GET is issued for a URL only when no GET was
\* issued for it before and the cache holds no entry for it; every URL a GET
\* was issued for has an entry once its request has ended.
C3_AtMostOneRequest ==
    /\ [](caching =>
            \A u \in fetched : HasRow(u) \/ (pc = "request" /\ url = u))
    /\ [][(caching /\ IsRequest) => (url \notin fetched /\ ~HasRow(url))]_vars

C3_Witness ==
    /\ caching
    /\ passes = 2
    /\ pc = "done"
    /\ \E k \in 1..Len(verdicts) :
           /\ verdicts[k].result.kind = "cache"
           /\ verdicts[k].url \in fetched
           /\ \E r \in db.url_cache :
                  r.url = verdicts[k].url /\ r.availability # True

\* C4: a transport failure other than a timeout always calls
\* on_connection_error, whatever timeout_is_error is.
C4_FailureAlwaysAnnotated ==
    \A k \in 1..Len(verdicts) :
        verdicts[k].result.kind = "RequestException" =>
            verdicts[k].decision[1] = "on_connection_error"

\* C5: a request that times out calls on_connection_error on its anchor, and
\* the tree after it is the one either value of timeout_is_error leads to.
C5_TimeoutAnnotated ==
    /\ [](\A k \in 1..Len(verdicts) :
            verdicts[k].result.kind = "Timeout" =>
                verdicts[k].decision = <<"on_connection_error", None>>)
    /\ [][(IsResponse /\ Last(verdicts').result.kind = "Timeout") =>
            /\ soup_doc' = on_connection_error(soup_doc, anchors[i], opts)
            /\ \A t \in BOOLEAN :
                   soup_doc' =
                       dispatch(soup_doc, anchors[i], Last(verdicts').outcome,
                                with_opt(opts, "timeout_is_error", t))]_vars

C5_Witness ==
    /\ pc = "done"
    /\ ~get_opt(opts, "timeout_is_error")
    /\ get_opt(opts, "labels")
    /\ \E k \in 1..Len(verdicts) : verdicts[k].result.kind = "Timeout"
    /\ \E k \in 1..Len(instance.content) :
           instance.content[k].string = "not available"

\* C6: whatever keys the host's DEADLINK_OPTS omits, a pass over a document
\* with qualifying anchors completes without error.
C6_PerKeyDefaults == ~(pc = "raised" /\ exception = "KeyError")

IsInternal(e) ==
    IF "href" \in DOMAIN e.attrs
    THEN siteurl # "" /\ startswith(e.attrs["href"], siteurl)
    ELSE FALSE

IsNotHttp(e) ==
    IF "href" \in DOMAIN e.attrs
    THEN ~startswith(e.attrs["href"], "http")
    ELSE TRUE

\* element k of the document is as it was, no call was made for its href and
\* no label follows it
Untouched(k) ==
    LET e == Original[k]
        p == pos(soup_doc, k)
    IN  /\ value(soup_doc[p]) = e
        /\ p < Len(soup_doc) => soup_doc[p + 1].id <= Len(Original)
        /\ "href" \in DOMAIN e.attrs =>
               \A c \in 1..Len(calls) : calls[c][2] # e.attrs["href"]

\* the step that visits the current anchor touches neither the cache, nor
\* the network, nor the tree
VisitIsNoop ==
    /\ pc' = "loop"
    /\ i' = i + 1
    /\ UNCHANGED <<db, fetched, calls, soup_doc, verdicts>>

\* the content stored at the end holds element k as it was
KeptAtFinish(k) ==
    (pc = "loop" /\ pc' = "done") =>
        instance'.content[pos(soup_doc, k)] = Original[k]

\* C7: an anchor whose href starts with the non-empty SITEURL causes no HTTP
\* request and no cache call, and stays as it was.
C7_InternalUntouched ==
    /\ [](InPass => \A k \in 1..Len(Original) :
                        IsInternal(Original[k]) => Untouched(k))
    /\ [][(pc = "loop" /\ i <= Len(anchors) /\ IsInternal(anchor))
            => VisitIsNoop]_vars
    /\ [][\A k \in 1..Len(Original) :
            IsInternal(Original[k]) => KeptAtFinish(k)]_vars

C7_Witness ==
    /\ pc = "loop"
    /\ i > Len(anchors)
    /\ siteurl # ""
    /\ get_opt(opts, "labels")
    /\ \E k \in 1..Len(Original) : IsInternal(Original[k])
    /\ \E k \in 1..Len(verdicts) : verdicts[k].decision[1] # "none"

\* C8: an element whose href does not start with 'http', or that has no
\* href, causes no HTTP request and no cache call, and stays as it was.
C8_NonHttpUntouched ==
    /\ [](InPass => \A k \in 1..Len(Original) :
                        IsNotHttp(Original[k]) => Untouched(k))
    /\ [][(pc = "loop" /\ i <= Len(anchors) /\ IsNotHttp(anchor))
            => VisitIsNoop]_vars
    /\ [][\A k \in 1..Len(Original) :
            IsNotHttp(Original[k]) => KeptAtFinish(k)]_vars

C8_Witness ==
    /\ pc = "loop"
    /\ i > Len(anchors)
    /\ caching
    /\ get_opt(opts, "labels")
    /\ \E k \in 1..Len(Original) : "href" \in DOMAIN Original[k].attrs
                                   /\ IsNotHttp(Original[k])
    /\ \E k \in 1..Len(verdicts) : verdicts[k].decision[1] # "none"

\* the guard of lines 176-180 holds for content object inst
Guarded(inst) ==
    inst.content_is_None \/ ~("DEADLINK_VALIDATION" \in DOMAIN settings
                              /\ settings["DEADLINK_VALIDATION"])

\* C9: when the content is None or DEADLINK_VALIDATION is absent or false,
\* the pass returns at once: the cache file is not initialized, read or
\* written, no request is issued and the content stays as it is.
C9_GuardDoesNothing ==
    /\ [][(pc = "idle" /\ pc' # "idle" /\ Guarded(instance')) =>
            /\ pc' = "returned"
            /\ UNCHANGED <<db, fetched, calls, verdicts>>]_vars
    /\ [][pc = "returned" => (pc' = "idle" /\ UNCHANGED <<db, fetched>>)]_vars
    /\ [](pc = "returned" => (Guarded(instance) /\ calls = <<>>))

C9_Witness ==
    /\ pc = "returned"
    /\ ~instance.content_is_None
    /\ \E k \in 1..Len(instance.content) :
           IF "href" \in DOMAIN instance.content[k].attrs
           THEN startswith(instance.content[k].attrs["href"], "http")
           ELSE FALSE
    /\ "DEADLINK_VALIDATION" \notin DOMAIN settings
    /\ caching
    /\ ~db.exists

\* C10: a response gives the outcome (reachable, ok iff status = 200,
\* status); status 200 leaves the tree as it is, any other status calls
\* on_access_error with that status and never on_connection_error.
C10_ResponseOutcome ==
    /\ [](\A k \in 1..Len(verdicts) :
            LET v == verdicts[k]
                status == v.result.status_code
            IN  v.result.kind = "response" =>
                  /\ v.outcome = <<True, IF status = 200 THEN True ELSE False, status>>
                  /\ v.decision = IF status = 200 THEN <<"none", None>>
                                  ELSE <<"on_access_error", status>>)
    /\ [][(IsResponse /\ Last(verdicts').result.kind = "response") =>
            LET status == Last(verdicts').result.status_code
            IN  soup_doc' = IF status = 200 THEN soup_doc
                            ELSE on_access_error(soup_doc, anchors[i], status, opts)]_vars

C10_Witness ==
    /\ pc = "done"
    /\ \E k \in 1..Len(verdicts) :
           /\ verdicts[k].result.kind = "response"
           /\ verdicts[k].result.status_code = 204
    /\ \E k \in 1..Len(instance.content) : instance.content[k].string = "204"

\* the URLs the pass has looked up so far
Checked == {verdicts[k].url : k \in 1..Len(verdicts)}

\* the outcomes the pass computed for URL u, from the results of its requests
Computed(u) ==
    {verdicts[k].outcome : k \in {n \in 1..Len(verdicts) :
        verdicts[n].url = u /\ verdicts[n].result.kind # "cache"}}

\* C11: when the first pass, which starts from an empty cache, completes with
\* caching enabled, the cache holds one entry for each URL checked in the
\* pass and no other, and the entry of a URL is the outcome computed for it.
C11_CachePersistence ==
    (pc = "done" /\ passes = 1 /\ caching) =>
        /\ {r.url : r \in db.url_cache} = Checked
        /\ Cardinality(db.url_cache) = Cardinality(Checked)
        /\ \A r \in db.url_cache :
               Computed(r.url) = {<<r.availability, r.success, r.code>>}

C11_Witness ==
    /\ pc = "done"
    /\ passes = 1
    /\ caching
    /\ Len(verdicts) = 2
    /\ verdicts[1].url = verdicts[2].url
    /\ verdicts[1].result.kind = "Timeout"
    /\ verdicts[2].result.kind = "cache"
    /\ Cardinality(db.url_cache) = 1

\* C12: every outcome get_status_code returns, computed or cached, and every
\* entry of the cache has a status code if and only if its availability is
\* reachable.
C12_CodeIffReachable ==
    /\ \A k \in 1..Len(verdicts) :
           (verdicts[k].outcome[3] # None) <=> (verdicts[k].outcome[1] = True)
    /\ \A r \in db.url_cache : (r.code # None) <=> (r.availability = True)

C12_Witness ==
    /\ pc = "done"
    /\ \E k \in 1..Len(verdicts) :
           /\ verdicts[k].result.kind = "cache"
           /\ verdicts[k].outcome = <<False, False, None>>
    /\ \E r \in db.url_cache : r.availability = None
    /\ \E r \in db.url_cache : r.code = 404

\* the element of the document handed to the pass is one the loop checks
Qualifies(e) == ~IsInternal(e) /\ ~IsNotHttp(e)

\* the pass has issued an HTTP GET
HasRequested == \E c \in 1..Len(calls) : calls[c][1] = "requests.get"

\* the step leaves every element but the one with identity id as it was,
\* and adds one element at most
OthersKept(id) ==
    /\ Len(soup_doc') \in {Len(soup_doc), Len(soup_doc) + 1}
    /\ \A p \in 1..Len(soup_doc) :
           soup_doc[p].id # id =>
               soup_doc'[pos(soup_doc', soup_doc[p].id)] = soup_doc[p]

\* C13: a pass that has issued a request never raises, whatever the result
\* of the request: the end of a request, a timeout and any other transport
\* failure included, records the anchor's verdict, changes no other element
\* and moves to the next anchor; the loop visits the qualifying anchors in
\* document order, all of them, and line 209 then stores the serialized tree.
C13_FailureNeverAborts ==
    /\ [](pc = "raised" => ~HasRequested)
    /\ [](pc = "request" =>
            \A r \in {x \in HttpResults : x.kind # "response"} : ENABLED Response(r))
    /\ [][pc = "request" =>
            /\ pc' = "loop"
            /\ i' = i + 1
            /\ Len(verdicts') = Len(verdicts) + 1
            /\ Last(verdicts').id = anchors[i]
            /\ OthersKept(anchors[i])]_vars
    /\ []((pc = "loop" /\ i > Len(anchors)) =>
            /\ ENABLED Finish
            /\ {verdicts[k].id : k \in 1..Len(verdicts)} =
                   {k \in 1..Len(Original) : Qualifies(Original[k])}
            /\ \A k \in 1..(Len(verdicts) - 1) : verdicts[k].id < verdicts[k + 1].id)
    /\ []((pc = "loop" /\ i <= Len(anchors) /\ HasRequested) =>
            ENABLED (SkipAnchor \/ CachedAnchor \/ SendRequest))
    /\ [][(pc = "loop" /\ HasRequested) =>
            \/ (pc' = "loop" /\ i' = i + 1)
            \/ (pc' = "request" /\ i' = i)
            \/ (pc' = "done" /\ instance'.content = serialize(soup_doc))]_vars

C13_Witness ==
    /\ pc = "done"
    /\ Len(verdicts) = 2
    /\ verdicts[1].result.kind = "RequestException"
    /\ verdicts[2].result.kind = "Timeout"
    /\ Len(instance.content) = 4

\* C14: sqlite3.Error in initialize_cache, get_cached_status or update_cache
\* leaves content_object_init at once: the step that raises changes neither
\* the tree, nor the verdicts, nor the cache, nor the stored content, and
\* nothing of the pass follows it (no anchor is checked or annotated, line
\* 209 is not reached).
C14_StoreErrorAborts ==
    /\ [](exception = "sqlite3.Error" => pc = "raised")
    /\ [][(exception' = "sqlite3.Error" /\ exception # "sqlite3.Error") =>
            /\ pc' = "raised"
            /\ UNCHANGED <<db, soup_doc, verdicts, fetched, i>>
            /\ InPass => instance' = instance]_vars
    /\ [][pc = "raised" =>
            /\ pc' = "idle"
            /\ UNCHANGED <<db, fetched>>]_vars

C14_Witness ==
    /\ pc = "raised"
    /\ exception = "sqlite3.Error"
    /\ i = 2
    /\ Len(verdicts) = 1
    /\ verdicts[1].decision[1] = "on_access_error"
    /\ Len(soup_doc) = 3
    /\ Len(instance.content) = 2
    /\ Last(calls)[1] = "update_cache"

\* the step calls on_connection_error or on_access_error on anchors[i]
Flags ==
    /\ InPass
    /\ Len(verdicts') = Len(verdicts) + 1
    /\ Last(verdicts').decision[1] # "none"

\* C15: with labels on, a step that flags an anchor puts the new label at
\* the position right after that anchor among the children of its parent,
\* whatever the document, a document that repeats an anchor included.
C15_LabelAfterItsAnchor ==
    [][(Flags /\ get_opt(opts, "labels")) =>
        LET p == pos(soup_doc', anchors[i])
        IN  /\ Len(soup_doc') = Len(soup_doc) + 1
            /\ p < Len(soup_doc')
            /\ soup_doc'[p + 1].id = Len(soup_doc) + 1
            /\ soup_doc'[p + 1].name = "span"]_vars

\* the class attribute of element e, as node.get('class', []) reads it
classes_of(e) == IF "class" \in DOMAIN e.attrs THEN e.attrs["class"] ELSE <<>>

\* C16: a step that flags an anchor leaves its classes where they were and
\* puts the configured classes after them, in the configured order and
\* without dropping a duplicate; the href becomes the archive.org address of
\* the href it had when archive is on and stays when it is off; nothing
\* else of the anchor changes; and with no classes, no labels and no
\* archive the whole tree stays as it was.
C16_ClassesAndArchive ==
    [][Flags =>
        LET old == soup_doc[pos(soup_doc, anchors[i])]
            new == soup_doc'[pos(soup_doc', anchors[i])]
            cls == get_opt(opts, "classes")
        IN  /\ classes_of(new) = classes_of(old) \o cls
            /\ ("class" \in DOMAIN new.attrs) <=>
                   ("class" \in DOMAIN old.attrs \/ cls # <<>>)
            /\ new.attrs["href"] =
                   IF get_opt(opts, "archive")
                   THEN "http://web.archive.org/web/*/" \o old.attrs["href"]
                   ELSE old.attrs["href"]
            /\ DOMAIN new.attrs \ {"class"} = DOMAIN old.attrs \ {"class"}
            /\ new.name = old.name /\ new.string = old.string
            /\ (cls = <<>> /\ ~get_opt(opts, "labels") /\ ~get_opt(opts, "archive"))
                   => soup_doc' = soup_doc]_vars

\* the object of class ext has been flagged with the classes dead and ext
\* configured and archive on
C16_Witness ==
    /\ pc = "loop"
    /\ \E k \in 1..Len(verdicts) :
           /\ verdicts[k].decision[1] # "none"
           /\ LET e == soup_doc[pos(soup_doc, verdicts[k].id)]
              IN  /\ classes_of(e) = <<"ext", "dead", "ext">>
                  /\ e.attrs["href"] = "http://web.archive.org/web/*/http://s/p"

\* the rows of the cache for URL u
rows(u) == {r \in db.url_cache : r.url = u}

\* C17: with another process writing the same cache file in any
\* interleaving, the cache holds one row per URL at most, and the row of a
\* URL is, field by field, what the last committed update_cache for that URL
\* wrote (none when there was none).
C17_LastWriteWins ==
    \A u \in Urls :
        /\ Cardinality(rows(u)) <= 1
        /\ IF last_put[u] = NoPut
           THEN rows(u) = {}
           ELSE rows(u) = {[url |-> u,
                            availability |-> last_put[u].outcome[1],
                            success |-> last_put[u].outcome[2],
                            code |-> last_put[u].outcome[3]]}

\* the pass has replaced, with another outcome, the row the other process
\* committed while the request of the pass was under way
C17_Witness ==
    /\ pc = "loop"
    /\ \E u \in Urls :
           /\ last_put[u].by = "pass"
           /\ last_put[u].over = "peer"
           /\ Len(verdicts) > 0
           /\ Last(verdicts).url = u
           /\ Last(verdicts).result.kind = "Timeout"
           /\ rows(u) = {[url |-> u, availability |-> False,
                          success |-> UNKNOWN, code |-> None]}

\* the step is the start of a pass that calls initialize_cache (line 188)
Initializes == pc = "idle" /\ pc' = "loop" /\ caching

\* C18: initialize_cache on a file that has the table changes nothing and
\* a second call changes nothing more; the start of a pass leaves every
\* row as it was, no step of a pass removes a row, and so a row written by
\* one pass is what get_cached_status returns in the passes after it.
C18_InitializeKeepsEntries ==
    /\ [](/\ initialize_cache(initialize_cache(db)) = initialize_cache(db)
          /\ db.exists => initialize_cache(db) = db
          /\ initialize_cache(db).url_cache = db.url_cache)
    /\ [][Initializes => (db'.exists /\ db'.url_cache = db.url_cache)]_vars
    /\ [][\A r \in db.url_cache :
            /\ r \in db'.url_cache
            /\ get_cached_status(r.url, db') =
                   <<bool(r.availability), bool(r.success), r.code>>]_vars
    /\ []((InPass /\ caching) =>
            \A u \in fetched : is_hit(get_cached_status(u, db))
                                   \/ (pc = "request" /\ url = u))

\* the second pass has started on a cache that held a row, and has taken
\* the outcome of its first anchor from it
C18_Witness ==
    /\ passes = 2
    /\ pc = "loop"
    /\ Len(verdicts) = 1
    /\ verdicts[1].result.kind = "cache"
    /\ verdicts[1].url \in fetched
    /\ rows(verdicts[1].url) # {}

\* the settings have no SITEURL, or an empty one
NoBaseUrl ==
    IF "SITEURL" \in DOMAIN settings THEN settings["SITEURL"] = "" ELSE TRUE

\* element e has an href that starts with "http"
IsHttp(e) ==
    IF "href" \in DOMAIN e.attrs THEN startswith(e.attrs["href"], "http")
    ELSE FALSE

\* C19: without a SITEURL, or with the empty one, the loop passes over no
\* element whose href starts with "http", although every href starts with
\* the empty string: at such an element the step is a cache lookup or a
\* request (or the KeyError of the missing timeout), never a continue, and
\* a pass that reaches its end has a verdict for each of them.
C19_EmptyBaseNothingInternal ==
    /\ [][(NoBaseUrl /\ pc = "loop" /\ i <= Len(anchors)
           /\ IsHttp(soup_doc[pos(soup_doc, anchors[i])])) =>
            \/ pc' = "request"
            \/ pc' = "raised" /\ exception' = "KeyError"
            \/ /\ pc' = "loop"
               /\ Len(verdicts') = Len(verdicts) + 1
               /\ Last(verdicts').id = anchors[i]
               /\ Last(verdicts').result.kind = "cache"]_vars
    /\ []((NoBaseUrl /\ pc = "loop" /\ i > Len(anchors)) =>
            {verdicts[k].id : k \in 1..Len(verdicts)} =
                {k \in 1..Len(Original) : IsHttp(Original[k])})

\* SITEURL is the empty string and both elements of the document, whose
\* hrefs start with "http", have a verdict
C19_Witness ==
    /\ "SITEURL" \in DOMAIN settings
    /\ NoBaseUrl
    /\ pc = "done"
    /\ Len(Original) = 2
    /\ Len(verdicts) = 2
    /\ verdicts[1].url = "http://s/p"
    /\ verdicts[2].url = "http://x/a"

\* the row update_cache stores for URL u and outcome o
row(u, o) == [url |-> u, availability |-> o[1], success |-> o[2], code |-> o[3]]

\* C20: the rows of the cache change only in the step that ends a request
\* made after a miss, by the one row of the outcome just classified; each
\* update_cache of a pass comes right after the lookup and the request for
\* the same URL; a lookup that finds a row leaves the cache as it is and
\* issues no request; so a pass without a miss makes no request and no
\* update_cache.
C20_WriteOnMissOnly ==
    /\ [][db'.url_cache # db.url_cache =>
            /\ IsResponse
            /\ caching
            /\ rows(url) = {}
            /\ Last(verdicts').url = url
            /\ Last(verdicts').result.kind # "cache"
            /\ db'.url_cache =
                   db.url_cache \cup {row(url, classify(Last(verdicts').result))}]_vars
    /\ [](\A c \in 1..Len(calls) :
            calls[c][1] = "update_cache" =>
                /\ c > 2
                /\ calls[c - 1] = <<"requests.get", calls[c][2]>>
                /\ calls[c - 2] = <<"get_cached_status", calls[c][2]>>)
    /\ [][(pc = "loop" /\ i <= Len(anchors) /\ caching
           /\ IsHttp(soup_doc[pos(soup_doc, anchors[i])])
           /\ ~IsInternal(soup_doc[pos(soup_doc, anchors[i])])
           /\ rows(soup_doc[pos(soup_doc, anchors[i])].attrs["href"]) # {}) =>
            /\ pc' = "loop"
            /\ db' = db
            /\ fetched' = fetched
            /\ calls' = Append(calls, <<"get_cached_status",
                   soup_doc[pos(soup_doc, anchors[i])].attrs["href"]>>)
            /\ Last(verdicts').result.kind = "cache"]_vars
    /\ [](~HasRequested =>
            \A c \in 1..Len(calls) : calls[c][1] # "update_cache")

\* the second pass has ended, both of its anchors were answered from the
\* cache and it has made no request
C20_Witness ==
    /\ passes = 2
    /\ pc = "done"
    /\ Len(verdicts) = 2
    /\ \A k \in 1..2 : verdicts[k].result.kind = "cache"
    /\ verdicts[1].url # verdicts[2].url
    /\ ~HasRequested
    /\ Cardinality(db.url_cache) = 2

====
